---- MODULE Spec2Model ----
(***************************************************************************)
(* A model of nix-data-generator (src/src/main.rs): one process that       *)
(* resolves the latest nixpkgs version of a channel, compares it with the  *)
(* marker file nixpkgs.ver, and otherwise downloads packages.json.br and   *)
(* rebuilds nixpkgs.db and nixpkgs_versions.db in the source directory.    *)
(*                                                                         *)
(* The state is the source directory on disk plus the locals of one call   *)
(* of downloaddb; each action is one statement (or one fallible call) of   *)
(* downloaddb, and what the network, the filesystem, SQLite and the        *)
(* sqlite3 subprocess answer is chosen by \E from small sets.  Strings     *)
(* that the code inspects are sequences of tokens, so that strip_prefix    *)
(* is computed, not assumed.                                               *)
(***************************************************************************)
EXTENDS Integers, Sequences, FiniteSets, TLC

(***************************************************************************)
(* Bounds                                                                  *)
(***************************************************************************)
\* number of invocations of the program on the same source directory
MaxRuns == 2

(***************************************************************************)
(* Option values: None is the empty sequence, Some(x) is <<x>>.            *)
(***************************************************************************)
None == << >>
Some(x) == <<x>>
IsSome(o) == Len(o) = 1
Unwrap(o) == o[1]

\* lines 57-62: StrOrVec, either Single(String) or List(Vec<String>)
Single(s) == [tag |-> "Single", v |-> <<s>>]
List(l) == [tag |-> "List", v |-> l]

(***************************************************************************)
(* JSON texts, written as the value they denote (serde_json::Value).       *)
(* An object is the sequence of its <<key, value>> members.                *)
(***************************************************************************)
JNull == [t |-> "null", v |-> << >>]
JBool(b) == [t |-> "bool", v |-> <<b>>]
JNum(n) == [t |-> "num", v |-> <<n>>]
JStr(s) == [t |-> "str", v |-> <<s>>]
JList(l) == [t |-> "list", v |-> l]
JObj(members) == [t |-> "obj", v |-> members]

\* Serialize for Option<bool> and Option<String>: None is written as null
OptBoolJson(o) == IF IsSome(o) THEN JBool(Unwrap(o)) ELSE JNull
OptStrJson(o) == IF IsSome(o) THEN JStr(Unwrap(o)) ELSE JNull

\* lines 83-91: License; Serialize writes all four fields under their
\* renamed keys
License(free, fullname, spdxid, url) ==
  [free |-> free, fullname |-> fullname, spdxid |-> spdxid, url |-> url]

LicenseJson(l) ==
  JObj(<< <<"free", OptBoolJson(l.free)>>, <<"fullName", OptStrJson(l.fullname)>>,
          <<"spdxId", OptStrJson(l.spdxid)>>, <<"url", OptStrJson(l.url)>> >>)

\* lines 73-81: LicenseEnum, untagged: a variant is written as its content
LicenseSingle(l) == [tag |-> "Single", v |-> <<l>>]
LicenseList(ls) == [tag |-> "List", v |-> ls]
LicenseSingleStr(s) == [tag |-> "SingleStr", v |-> <<s>>]
LicenseVecStr(ss) == [tag |-> "VecStr", v |-> ss]
LicenseMixed(xs) == [tag |-> "Mixed", v |-> xs]

RECURSIVE LicenseEnumJson(_)
LicenseEnumJson(x) ==
  CASE x.tag = "Single" -> LicenseJson(x.v[1])
    [] x.tag = "List" -> JList([i \in 1..Len(x.v) |-> LicenseJson(x.v[i])])
    [] x.tag = "SingleStr" -> JStr(x.v[1])
    [] x.tag = "VecStr" -> JList([i \in 1..Len(x.v) |-> JStr(x.v[i])])
    [] OTHER -> JList([i \in 1..Len(x.v) |-> LicenseEnumJson(x.v[i])])

\* lines 64-71: Platform, untagged; Unknown keeps the value as it came
PlatformSingle(s) == [tag |-> "Single", v |-> <<s>>]
PlatformList(ss) == [tag |-> "List", v |-> ss]
PlatformListList(sss) == [tag |-> "ListList", v |-> sss]
PlatformUnknown(json) == [tag |-> "Unknown", v |-> <<json>>]

PlatformJson(x) ==
  CASE x.tag = "Single" -> JStr(x.v[1])
    [] x.tag = "List" -> JList([i \in 1..Len(x.v) |-> JStr(x.v[i])])
    [] x.tag = "ListList" ->
         JList([i \in 1..Len(x.v) |->
                  JList([j \in 1..Len(x.v[i]) |-> JStr(x.v[i][j])])])
    [] OTHER -> x.v[1]

(***************************************************************************)
(* The world outside the program.                                          *)
(***************************************************************************)
\* values of the --ver argument (what a channel resolves to is chosen by
\* the network at each probe, so one value stands for all)
Channels == {"nixos-23.05"}

\* last path segments a channel probe can be redirected to
Idents ==
  { <<"nixos-", "23.05.1">>, <<"nixos-", "23.05.2">>, <<"nixpkgs-", "23.05.2">> }

\* what a HTTP GET can answer: a 2xx status, another status, or no answer
HttpOutcomes == {"success", "status", "transport"}

\* what a fallible local call can answer
IoOutcomes == {"ok", "err"}

NoMeta ==
  [broken |-> None, insecure |-> None, unsupported |-> None, unfree |-> None,
   description |-> None, longdescription |-> None, homepage |-> None,
   maintainers |-> None, position |-> None, license |-> None, platforms |-> None]

Pkg(pname, ver, meta) ==
  [pname |-> pname, version |-> ver, system |-> "x86_64-linux", meta |-> meta]

(***************************************************************************)
(* Deserialize, lines 28-91.  A result is [ok, v]; v is the decoded value  *)
(* when ok.  A struct is decoded from a JSON object: a missing or null     *)
(* Option field is None, a key the struct does not declare is skipped.     *)
(***************************************************************************)
Decoded(x) == [ok |-> TRUE, v |-> <<x>>]
DecodeError == [ok |-> FALSE, v |-> << >>]

\* the member `key` of an object, if there is one
JField(obj, key) ==
  LET at == { i \in 1..Len(obj.v) : obj.v[i][1] = key }
  IN IF at = {} THEN None ELSE Some(obj.v[CHOOSE i \in at : TRUE][2])

JKeys(obj) == { obj.v[i][1] : i \in 1..Len(obj.v) }

IsStr(j) == j.t = "str"
IsStrList(j) == j.t = "list" /\ \A i \in 1..Len(j.v) : IsStr(j.v[i])
IsStrListList(j) == j.t = "list" /\ \A i \in 1..Len(j.v) : IsStrList(j.v[i])
Strs(j) == [i \in 1..Len(j.v) |-> j.v[i].v[1]]

\* Option<bool>, Option<String>: o is the member, if present
DecOptBool(o) ==
  IF ~IsSome(o) \/ Unwrap(o).t = "null" THEN Decoded(None)
  ELSE IF Unwrap(o).t = "bool" THEN Decoded(Some(Unwrap(o).v[1]))
  ELSE DecodeError

DecOptStr(o) ==
  IF ~IsSome(o) \/ Unwrap(o).t = "null" THEN Decoded(None)
  ELSE IF IsStr(Unwrap(o)) THEN Decoded(Some(Unwrap(o).v[1]))
  ELSE DecodeError

\* a String that must be there
DecStr(o) ==
  IF IsSome(o) /\ IsStr(Unwrap(o)) THEN Decoded(Unwrap(o).v[1]) ELSE DecodeError

\* lines 57-62: the variants are tried in the order of declaration
DecStrOrVec(j) ==
  IF IsStr(j) THEN Decoded(Single(j.v[1]))
  ELSE IF IsStrList(j) THEN Decoded(List(Strs(j)))
  ELSE DecodeError

\* lines 64-71: Unknown(Value) takes whatever the other variants refuse
DecPlatform(j) ==
  IF IsStr(j) THEN Decoded(PlatformSingle(j.v[1]))
  ELSE IF IsStrList(j) THEN Decoded(PlatformList(Strs(j)))
  ELSE IF IsStrListList(j)
       THEN Decoded(PlatformListList([i \in 1..Len(j.v) |-> Strs(j.v[i])]))
  ELSE Decoded(PlatformUnknown(j))

\* lines 83-91: from an object by key, or (as every derived struct) from an
\* array of exactly the four fields in order
LicenseFields(free, fullname, spdxid, url) ==
  IF free.ok /\ fullname.ok /\ spdxid.ok /\ url.ok
  THEN Decoded(License(free.v[1], fullname.v[1], spdxid.v[1], url.v[1]))
  ELSE DecodeError

DecLicense(j) ==
  IF j.t = "obj"
  THEN LicenseFields(DecOptBool(JField(j, "free")), DecOptStr(JField(j, "fullName")),
                     DecOptStr(JField(j, "spdxId")), DecOptStr(JField(j, "url")))
  ELSE IF j.t = "list" /\ Len(j.v) = 4
  THEN LicenseFields(DecOptBool(Some(j.v[1])), DecOptStr(Some(j.v[2])),
                     DecOptStr(Some(j.v[3])), DecOptStr(Some(j.v[4])))
  ELSE DecodeError

\* lines 73-81: Single, List, SingleStr, VecStr, Mixed, in this order
RECURSIVE DecLicenseEnum(_)
DecLicenseEnum(j) ==
  IF DecLicense(j).ok THEN Decoded(LicenseSingle(DecLicense(j).v[1]))
  ELSE IF j.t = "list" /\ \A i \in 1..Len(j.v) : DecLicense(j.v[i]).ok
       THEN Decoded(LicenseList([i \in 1..Len(j.v) |-> DecLicense(j.v[i]).v[1]]))
  ELSE IF IsStr(j) THEN Decoded(LicenseSingleStr(j.v[1]))
  ELSE IF IsStrList(j) THEN Decoded(LicenseVecStr(Strs(j)))
  ELSE IF j.t = "list" /\ \A i \in 1..Len(j.v) : DecLicenseEnum(j.v[i]).ok
       THEN Decoded(LicenseMixed([i \in 1..Len(j.v) |-> DecLicenseEnum(j.v[i]).v[1]]))
  ELSE DecodeError

\* Option<StrOrVec>, Option<LicenseEnum>, Option<Platform>
DecOptStrOrVec(o) ==
  IF ~IsSome(o) \/ Unwrap(o).t = "null" THEN Decoded(None)
  ELSE IF DecStrOrVec(Unwrap(o)).ok THEN Decoded(Some(DecStrOrVec(Unwrap(o)).v[1]))
  ELSE DecodeError

DecOptLicenseEnum(o) ==
  IF ~IsSome(o) \/ Unwrap(o).t = "null" THEN Decoded(None)
  ELSE IF DecLicenseEnum(Unwrap(o)).ok
       THEN Decoded(Some(DecLicenseEnum(Unwrap(o)).v[1]))
  ELSE DecodeError

DecOptPlatform(o) ==
  IF ~IsSome(o) \/ Unwrap(o).t = "null" THEN Decoded(None)
  ELSE Decoded(Some(DecPlatform(Unwrap(o)).v[1]))

\* Option<Value>: any value is taken
DecOptValue(o) ==
  IF ~IsSome(o) \/ Unwrap(o).t = "null" THEN None ELSE o

\* lines 41-55
DecMeta(o) ==
  IF ~IsSome(o) \/ Unwrap(o).t # "obj" THEN DecodeError
  ELSE LET j == Unwrap(o)
           broken == DecOptBool(JField(j, "broken"))
           insecure == DecOptBool(JField(j, "insecure"))
           unsupported == DecOptBool(JField(j, "unsupported"))
           unfree == DecOptBool(JField(j, "unfree"))
           description == DecOptStr(JField(j, "description"))
           longdescription == DecOptStr(JField(j, "longDescription"))
           homepage == DecOptStrOrVec(JField(j, "homepage"))
           position == DecOptStr(JField(j, "position"))
           license == DecOptLicenseEnum(JField(j, "license"))
           platforms == DecOptPlatform(JField(j, "platforms"))
       IN IF /\ broken.ok /\ insecure.ok /\ unsupported.ok /\ unfree.ok
             /\ description.ok /\ longdescription.ok /\ homepage.ok
             /\ position.ok /\ license.ok /\ platforms.ok
          THEN Decoded(
                 [broken |-> broken.v[1], insecure |-> insecure.v[1],
                  unsupported |-> unsupported.v[1], unfree |-> unfree.v[1],
                  description |-> description.v[1],
                  longdescription |-> longdescription.v[1],
                  homepage |-> homepage.v[1],
                  maintainers |-> DecOptValue(JField(j, "maintainers")),
                  position |-> position.v[1], license |-> license.v[1],
                  platforms |-> platforms.v[1]])
          ELSE DecodeError

\* lines 33-39
DecPkg(j) ==
  IF j.t # "obj" THEN DecodeError
  ELSE LET pname == DecStr(JField(j, "pname"))
           ver == DecStr(JField(j, "version"))
           system == DecStr(JField(j, "system"))
           meta == DecMeta(JField(j, "meta"))
       IN IF pname.ok /\ ver.ok /\ system.ok /\ meta.ok
          THEN Decoded([pname |-> pname.v[1], version |-> ver.v[1],
                        system |-> system.v[1], meta |-> meta.v[1]])
          ELSE DecodeError

\* lines 28-31: packages is the member "packages" of the document, written
\* here as the map attribute -> JSON object
DecPackages(packages) ==
  IF \A a \in DOMAIN packages : DecPkg(packages[a]).ok
  THEN Decoded([a \in DOMAIN packages |-> DecPkg(packages[a]).v[1]])
  ELSE DecodeError

(***************************************************************************)
(* The manifests of the snapshots.                                         *)
(***************************************************************************)
PkgJson(pname, ver, meta) ==
  JObj(<< <<"pname", JStr(pname)>>, <<"version", JStr(ver)>>,
          <<"system", JStr("x86_64-linux")>>, <<"meta", JObj(meta)>> >>)

\* packages.json of each snapshot: a map attribute -> package object
PackagesJson(ident) ==
  CASE ident = <<"nixos-", "23.05.1">> ->
         [a \in {"foo", "bar"} |->
            IF a = "foo" THEN PkgJson("foo", "1.0", << >>)
            ELSE PkgJson("bar", "2.0",
                   << <<"broken", JBool(TRUE)>>,
                      <<"description", JStr("bar tool")>>,
                      <<"license", JStr("MIT")>>,
                      <<"platforms", JNum(1)>> >>)]
    [] ident = <<"nixos-", "23.05.2">> ->
         [a \in {"foo", "baz"} |->
            IF a = "foo"
            THEN PkgJson("foo", "1.1",
                   << <<"unfree", JBool(FALSE)>>,
                      <<"position", JStr("pkgs/foo/default.nix:7")>>,
                      <<"platforms", JList(<<JStr("x86_64-linux")>>)>> >>)
            ELSE PkgJson("baz", "0.3",
                   << <<"insecure", JBool(TRUE)>>,
                      <<"homepage", JList(<<JStr("https://a"), JStr("https://b")>>)>>,
                      <<"maintainers", JList(<<JObj(<< <<"github", JStr("m")>> >>)>>)>>,
                      <<"license", JObj(<< <<"free", JBool(TRUE)>>,
                                           <<"fullName", JStr("MIT License")>>,
                                           <<"shortName", JStr("mit")>>,
                                           <<"spdxId", JStr("MIT")>> >>)>> >>)]
    [] OTHER ->
         [a \in {"foo"} |->
            PkgJson("foo", "1.1",
              << <<"homepage", JStr("https://foo")>>,
                 <<"longDescription", JStr("foo, at length")>>,
                 <<"license", JList(<<JStr("GPL"), JList(<<JStr("MIT")>>)>>)>> >>)]

\* the manifest published under each snapshot, as serde_json decodes it:
\* a map attribute -> package
ManifestOf(ident) == DecPackages(PackagesJson(ident)).v[1]

\* bodies the manifest URL can deliver: the JSON text of a package list, or
\* a body that is no such text
Body(ok, packages) == [wellformed |-> ok, packages |-> packages]
NoPackages == [a \in {} |-> None]
NoBody == Body(FALSE, NoPackages)

(***************************************************************************)
(* Pure functions of the program.                                          *)
(***************************************************************************)
\* str::strip_prefix(p).unwrap_or(s)
StripPrefix(s, p) == IF Len(s) > 0 /\ Head(s) = p THEN Tail(s) ELSE s

\* lines 142-147: the canonical version string
CanonicalVersion(ident) == StripPrefix(StripPrefix(ident, "nixos-"), "nixpkgs-")

\* variant: a flag that is present counts as set
FlagPresent(o) == IF IsSome(o) THEN 1 ELSE 0

\* lines 268-303: Option<bool> to 0/1
Flag(o) == IF IsSome(o) THEN (IF Unwrap(o) THEN 1 ELSE 0) ELSE 0

\* the csv writer's encoding of Option<String>: None is the empty field
CsvOpt(o) == IF IsSome(o) THEN Unwrap(o) ELSE ""

\* variant: the last element of a list
LastHomepage(o) ==
  IF ~IsSome(o) THEN None
  ELSE IF Unwrap(o).tag = "List"
       THEN (IF Len(Unwrap(o).v) = 0 THEN None
             ELSE Some(Unwrap(o).v[Len(Unwrap(o).v)]))
       ELSE Some(Unwrap(o).v[1])

\* lines 306-309: the homepage column
FirstHomepage(o) ==
  IF ~IsSome(o) THEN None
  ELSE IF Unwrap(o).tag = "List"
       THEN (IF Len(Unwrap(o).v) = 0 THEN None ELSE Some(Unwrap(o).v[1]))
       ELSE Some(Unwrap(o).v[1])

\* lines 245-252: the rows written for the pkgs table
PkgsCsv(packages) ==
  { [attribute |-> a, system |-> packages[a].system,
     pname |-> packages[a].pname, version |-> packages[a].version]
    : a \in DOMAIN packages }

\* lines 310-316: serde_json::to_string of the maintainers value
MaintainersColumn(o) == IF IsSome(o) THEN Some(Unwrap(o)) ELSE None

\* lines 318-324: serde_json::to_string of the license
LicenseColumn(o) == IF IsSome(o) THEN Some(LicenseEnumJson(Unwrap(o))) ELSE None

\* variant: Platform::Unknown is serialized like the other variants
PlatformsColumnAll(o) ==
  IF IsSome(o) THEN Some(PlatformJson(Unwrap(o))) ELSE None

\* lines 325-331: nothing for Platform::Unknown, else serde_json::to_string
PlatformsColumn(o) ==
  IF IsSome(o) /\ Unwrap(o).tag # "Unknown" THEN Some(PlatformJson(Unwrap(o))) ELSE None

\* lines 265-333: the rows written for the meta table; a JSON column is
\* None when its field is empty, Some(text) otherwise
MetaCsv(packages) ==
  { [attribute |-> a,
     broken |-> Flag(packages[a].meta.broken),
     insecure |-> Flag(packages[a].meta.insecure),
     unsupported |-> Flag(packages[a].meta.unsupported),
     unfree |-> Flag(packages[a].meta.unfree),
     description |-> CsvOpt(packages[a].meta.description),
     longdescription |-> CsvOpt(packages[a].meta.longdescription),
     homepage |-> CsvOpt(FirstHomepage(packages[a].meta.homepage)),
     maintainers |-> MaintainersColumn(packages[a].meta.maintainers),
     position |-> CsvOpt(packages[a].meta.position),
     license |-> LicenseColumn(packages[a].meta.license),
     platforms |-> PlatformsColumn(packages[a].meta.platforms)]
    : a \in DOMAIN packages }

\* lines 379-381: the rows written for nixpkgs_versions.db
VersionsCsv(packages) ==
  { [attribute |-> a, pname |-> packages[a].pname, version |-> packages[a].version]
    : a \in DOMAIN packages }

\* sqlite3 .import into a table whose attribute column is UNIQUE: a row
\* whose key is already present is rejected, the others are inserted
ImportRows(table, rows) ==
  table \cup { r \in rows : \A t \in table : t.attribute # r.attribute }

(***************************************************************************)
(* Files of the source directory.                                          *)
(***************************************************************************)
\* nixpkgs.ver
NoFile == [exists |-> FALSE, content |-> << >>]
File(content) == [exists |-> TRUE, content |-> content]

\* nixpkgs.db: schema counts the DDL statements of lines 182-237 that have
\* been executed (pkgs, meta, attributes, metaattributes, pnames)
NoDb == [exists |-> FALSE, schema |-> 0, pkgs |-> {}, meta |-> {}]
EmptyDb == [exists |-> TRUE, schema |-> 0, pkgs |-> {}, meta |-> {}]
DbStatements == 5

\* nixpkgs_versions.db: schema counts the statements of lines 351-376
NoVersionsDb == [exists |-> FALSE, schema |-> 0, pkgs |-> {}]
EmptyVersionsDb == [exists |-> TRUE, schema |-> 0, pkgs |-> {}]
VersionsDbStatements == 3

\* Sqlite::create_database opens the file with create_if_missing: an
\* existing database is opened and kept as it is
CreateDatabase(file, empty) == IF file.exists THEN file ELSE empty

\* CREATE TABLE / CREATE INDEX number k: an error if the object exists
CanCreate(file, k) == file.schema < k

VARIABLES
  pc,                  \* the statement of downloaddb that runs next, or "idle"
  runs,                \* invocations so far
  version,             \* the parameter `version` (reassigned at line 129)
  latestnixpkgsver,    \* line 119
  latestpkgsver,       \* line 145
  resp,                \* the body of the manifest response, line 170
  pkgjson,             \* line 240
  stmt,                \* DDL statements executed in the current block
  srcdir,              \* the source directory exists
  nixpkgs_ver,         \* <sourcedir>/nixpkgs.ver
  nixpkgs_db,          \* <sourcedir>/nixpkgs.db
  nixpkgs_versions_db, \* <sourcedir>/nixpkgs_versions.db
  result,              \* how the last invocation ended
  uptodate,            \* it returned at line 161
  probes,              \* history: the probes of this run
  fetches,             \* history: manifest requests of this run
  faults,              \* history: the external operations of this run that failed
  pre,                 \* history: the files and the record when this run started
  succeeded,           \* history: versions some run has ended successfully for
  settled              \* history: see Resolved

locals == <<version, latestnixpkgsver, latestpkgsver, resp, pkgjson, stmt>>
disk == <<srcdir, nixpkgs_ver, nixpkgs_db, nixpkgs_versions_db>>
history == <<probes, fetches, faults, pre, succeeded, settled>>
vars == <<pc, runs, locals, disk, result, uptodate, history>>

Files == [ver |-> nixpkgs_ver, db |-> nixpkgs_db, versions |-> nixpkgs_versions_db]

Init ==
  /\ pc = "idle"
  /\ runs = 0
  /\ version = "" /\ latestnixpkgsver = << >> /\ latestpkgsver = << >>
  /\ resp = NoBody /\ pkgjson = NoPackages /\ stmt = 0
  /\ srcdir \in BOOLEAN
  /\ nixpkgs_ver = NoFile /\ nixpkgs_db = NoDb /\ nixpkgs_versions_db = NoVersionsDb
  /\ result = "none" /\ uptodate = FALSE
  /\ probes = << >> /\ fetches = << >> /\ faults = {}
  /\ succeeded = {} /\ settled = None
  /\ pre = [files |-> Files, srcdir |-> srcdir, succeeded |-> {}, settled |-> None]

(***************************************************************************)
(* How a call of downloaddb ends (main, lines 106-112).                    *)
(***************************************************************************)
\* variant: main logs the error and returns, so the process exits with 0
ErrLogged ==
  /\ pc' = "idle" /\ result' = "ok" /\ uptodate' = FALSE

\* `?` or return Err(..): main logs the error and exits with status 1
Err ==
  /\ pc' = "idle" /\ result' = "err" /\ uptodate' = FALSE

\* expect(..) on an Err: the process panics and exits with status 101
Panic ==
  /\ pc' = "idle" /\ result' = "panic" /\ uptodate' = FALSE

\* return Ok(()): main returns and the process exits with status 0
Ok(short) ==
  /\ pc' = "idle" /\ result' = "ok" /\ uptodate' = short
  /\ succeeded' = succeeded \cup {latestpkgsver}
  /\ settled' = Some(latestpkgsver)

Goto(next) ==
  /\ pc' = next /\ UNCHANGED <<result, uptodate>>

\* history: the external operation `step` failed (whatever the code makes of it)
Fault(failed, step) ==
  faults' = IF failed THEN faults \cup {step} ELSE faults

\* history: settled = Some(V) while a run has ended successfully for V and
\* no run since has resolved another version or failed to read the marker
Resolved(v) ==
  settled' = IF settled = Some(v) THEN settled ELSE None

(***************************************************************************)
(* main: one invocation with --ver v on the source directory.              *)
(***************************************************************************)
Start ==
  /\ pc = "idle" /\ runs < MaxRuns
  /\ \E v \in Channels : version' = v
  /\ runs' = runs + 1
  /\ latestnixpkgsver' = << >> /\ latestpkgsver' = << >>
  /\ resp' = NoBody /\ pkgjson' = NoPackages /\ stmt' = 0
  /\ result' = "none" /\ uptodate' = FALSE
  /\ probes' = << >> /\ fetches' = << >> /\ faults' = {}
  /\ pre' = [files |-> Files, srcdir |-> srcdir,
             succeeded |-> succeeded, settled |-> settled]
  /\ pc' = "probe"
  /\ UNCHANGED <<disk, succeeded, settled>>

(***************************************************************************)
(* Version resolution, lines 116-148.                                      *)
(***************************************************************************)
\* reqwest::blocking::get(..)?, lines 118 and 127: no response at all
NoResponse(outcome) == outcome = "transport"

\* resp.status().is_success(), lines 119 and 128
IsSuccess(outcome) == outcome = "success"

\* line 127: the path of the fallback probe
FallbackChannel == "nixos-unstable"

\* variant: the channel is not reassigned after the fallback
FallbackVersionKept == version

\* line 129: the channel used after the fallback
FallbackVersion == "unstable"

Probed(path, outcome, ident) ==
  [path |-> path, outcome |-> outcome,
   ident |-> IF outcome = "success" THEN ident ELSE << >>]

\* lines 116-126
Probe ==
  /\ pc = "probe"
  /\ \E outcome \in HttpOutcomes, ident \in Idents :
       /\ probes' = Append(probes, Probed(version, outcome, ident))
       /\ Fault(outcome # "success", IF outcome = "status" THEN "probe_status" ELSE "probe")
       /\ IF NoResponse(outcome)
          THEN /\ Err
               /\ UNCHANGED <<latestnixpkgsver, latestpkgsver, settled>>
          ELSE IF IsSuccess(outcome)
          THEN /\ latestnixpkgsver' = ident
               /\ latestpkgsver' = CanonicalVersion(ident)
               /\ Resolved(CanonicalVersion(ident))
               /\ Goto("mkdir")
          ELSE /\ Goto("fallback")
               /\ UNCHANGED <<latestnixpkgsver, latestpkgsver, settled>>
  /\ UNCHANGED <<runs, version, resp, pkgjson, stmt, disk, fetches, pre, succeeded>>

\* lines 127-138
Fallback ==
  /\ pc = "fallback"
  /\ \E outcome \in HttpOutcomes, ident \in Idents :
       /\ probes' = Append(probes, Probed(FallbackChannel, outcome, ident))
       /\ Fault(outcome # "success", "fallback")
       /\ IF NoResponse(outcome)
          THEN /\ Err
               /\ UNCHANGED <<version, latestnixpkgsver, latestpkgsver, settled>>
          ELSE IF IsSuccess(outcome)
          THEN /\ version' = FallbackVersion
               /\ latestnixpkgsver' = ident
               /\ latestpkgsver' = CanonicalVersion(ident)
               /\ Resolved(CanonicalVersion(ident))
               /\ Goto("mkdir")
          ELSE /\ Err
               /\ UNCHANGED <<version, latestnixpkgsver, latestpkgsver, settled>>
  /\ UNCHANGED <<runs, resp, pkgjson, stmt, disk, fetches, pre, succeeded>>

(***************************************************************************)
(* Staleness check, lines 150-163.                                         *)
(***************************************************************************)
\* lines 151-155
MkDir ==
  /\ pc = "mkdir"
  /\ IF srcdir
     THEN Goto("check") /\ faults' = faults /\ UNCHANGED srcdir
     ELSE \E io \in IoOutcomes :
            /\ Fault(io = "err", "mkdir")
            /\ IF io = "ok"
               THEN Goto("check") /\ srcdir' = TRUE
               ELSE Err /\ UNCHANGED srcdir
  /\ UNCHANGED <<runs, locals, nixpkgs_ver, nixpkgs_db, nixpkgs_versions_db,
                 probes, fetches, pre, succeeded, settled>>

\* variant: the comparison with the marker is inverted
UpToDateInverted(prevver, latest, db) ==
  IsSome(prevver) /\ Unwrap(prevver) # latest /\ db.exists

\* variant: the database file is not looked at
UpToDateWithoutDb(prevver, latest, db) ==
  IsSome(prevver) /\ Unwrap(prevver) = latest

\* lines 158-159: prevver is Some(content) when read_to_string returned Ok
UpToDate(prevver, latest, db) ==
  IsSome(prevver) /\ Unwrap(prevver) = latest /\ db.exists

\* lines 158-163
StalenessCheck ==
  /\ pc = "check"
  /\ \E io \in IoOutcomes :
       LET prevver == IF nixpkgs_ver.exists /\ io = "ok"
                      THEN Some(nixpkgs_ver.content) ELSE None
           unread == nixpkgs_ver.exists /\ io = "err"
       IN /\ Fault(unread, "read_marker")
          /\ IF UpToDate(prevver, latestpkgsver, nixpkgs_db)
             THEN Ok(TRUE)
             ELSE /\ Goto("fetch")
                  /\ settled' = IF unread THEN None ELSE settled
                  /\ UNCHANGED succeeded
  /\ UNCHANGED <<runs, locals, disk, probes, fetches, pre>>

(***************************************************************************)
(* Manifest download, lines 165-173 and 395-397.                           *)
(***************************************************************************)
\* variant: the status of the manifest response is not looked at
ManifestOkAnyStatus(outcome) == TRUE

\* line 171
ManifestOk(outcome) == outcome = "success"

Fetch ==
  /\ pc = "fetch"
  /\ fetches' = Append(fetches, version)
  /\ \E outcome \in HttpOutcomes, wellformed \in BOOLEAN :
       /\ Fault(outcome # "success",
                IF outcome = "status" THEN "fetch_status" ELSE "fetch")
       /\ IF NoResponse(outcome)
          THEN Err /\ UNCHANGED resp
          ELSE IF ManifestOk(outcome)
          THEN /\ resp' = IF wellformed /\ outcome = "success"
                          THEN Body(TRUE, PackagesJson(latestnixpkgsver))
                          ELSE NoBody
               /\ Goto("remove")
          ELSE Err /\ UNCHANGED resp
  /\ UNCHANGED <<runs, version, latestnixpkgsver, latestpkgsver, pkgjson, stmt,
                 disk, probes, pre, succeeded, settled>>

(***************************************************************************)
(* The primary database, lines 174-263 and 264-345.                        *)
(***************************************************************************)
\* lines 176-178
RemoveDb ==
  /\ pc = "remove"
  /\ IF nixpkgs_db.exists
     THEN \E io \in IoOutcomes :
            /\ Fault(io = "err", "remove")
            /\ IF io = "ok"
               THEN Goto("create") /\ nixpkgs_db' = NoDb
               ELSE Err /\ UNCHANGED nixpkgs_db
     ELSE Goto("create") /\ faults' = faults /\ UNCHANGED nixpkgs_db
  /\ UNCHANGED <<runs, locals, srcdir, nixpkgs_ver, nixpkgs_versions_db,
                 probes, fetches, pre, succeeded, settled>>

\* lines 180-181: create_database, then the pool connects
CreateDb ==
  /\ pc = "create"
  /\ \E io \in IoOutcomes :
       /\ Fault(io = "err", "create")
       /\ IF io = "ok"
          THEN /\ nixpkgs_db' = CreateDatabase(nixpkgs_db, EmptyDb)
               /\ stmt' = 0
               /\ Goto("ddl")
          ELSE Err /\ UNCHANGED <<nixpkgs_db, stmt>>
  /\ UNCHANGED <<runs, version, latestnixpkgsver, latestpkgsver, resp, pkgjson,
                 srcdir, nixpkgs_ver, nixpkgs_versions_db,
                 probes, fetches, pre, succeeded, settled>>

\* lines 182-237: the five statements, one at a time
CreateSchema ==
  /\ pc = "ddl"
  /\ \E io \in IoOutcomes :
       /\ Fault(io = "err", "ddl")
       /\ IF io = "ok" /\ CanCreate(nixpkgs_db, stmt + 1)
          THEN /\ nixpkgs_db' = [nixpkgs_db EXCEPT !.schema = stmt + 1]
               /\ stmt' = stmt + 1
               /\ Goto(IF stmt + 1 = DbStatements THEN "decode" ELSE "ddl")
          ELSE Err /\ UNCHANGED <<nixpkgs_db, stmt>>
  /\ UNCHANGED <<runs, version, latestnixpkgsver, latestpkgsver, resp, pkgjson,
                 srcdir, nixpkgs_ver, nixpkgs_versions_db,
                 probes, fetches, pre, succeeded, settled>>

\* serde_json::from_reader on the body: an error if the body is not the
\* JSON text of a package list
FromReader(body) == IF body.wellformed THEN DecPackages(body.packages) ELSE DecodeError

\* lines 239-241: serde_json::from_reader(..).expect(..)
Decode ==
  /\ pc = "decode"
  /\ Fault(~FromReader(resp).ok, "decode")
  /\ IF FromReader(resp).ok
     THEN pkgjson' = FromReader(resp).v[1] /\ Goto("import_pkgs")
     ELSE Panic /\ UNCHANGED pkgjson
  /\ UNCHANGED <<runs, version, latestnixpkgsver, latestpkgsver, resp, stmt,
                 disk, probes, fetches, pre, succeeded, settled>>

\* what a run of `sqlite3 -csv <db> ".import '|cat -' <table>"` can do:
\* "spawn" - spawn, write_all or wait returned Err;
\* "exit0" - it imported every row and exited with status 0;
\* "exitfail" - it exited with another status having imported only some rows
ImportOutcomes == {"spawn", "exit0", "exitfail"}

\* lines 260-263, 341-344, 388-391: `?` on spawn, write_all and wait; the
\* exit status is bound to _status and never looked at
ImportAborts(outcome) == outcome = "spawn"

\* the rows the subprocess has inserted when it ends with `outcome`
Imported(outcome, rows, some) ==
  CASE outcome = "exit0" -> rows
    [] outcome = "exitfail" -> some
    [] OTHER -> {}

\* the rows a failing subprocess may have inserted: any proper subset
Partial(rows) == (SUBSET rows) \ {rows}

\* history: the name of a failed import
ImportFault(step, outcome) == IF outcome = "spawn" THEN step ELSE step \o "_exit"

\* lines 243-263
ImportPkgs ==
  /\ pc = "import_pkgs"
  /\ \E outcome \in ImportOutcomes : \E some \in Partial(PkgsCsv(pkgjson)) :
       /\ Fault(outcome # "exit0", ImportFault("import_pkgs", outcome))
       /\ nixpkgs_db' = [nixpkgs_db EXCEPT !.pkgs =
              ImportRows(@, Imported(outcome, PkgsCsv(pkgjson), some))]
       /\ IF ImportAborts(outcome) THEN Err ELSE Goto("import_meta")
  /\ UNCHANGED <<runs, locals, srcdir, nixpkgs_ver, nixpkgs_versions_db,
                 probes, fetches, pre, succeeded, settled>>

\* lines 264-345
ImportMeta ==
  /\ pc = "import_meta"
  /\ \E outcome \in ImportOutcomes : \E some \in Partial(MetaCsv(pkgjson)) :
       /\ Fault(outcome # "exit0", ImportFault("import_meta", outcome))
       /\ nixpkgs_db' = [nixpkgs_db EXCEPT !.meta =
              ImportRows(@, Imported(outcome, MetaCsv(pkgjson), some))]
       /\ IF ImportAborts(outcome) THEN Err ELSE Goto("vcreate")
  /\ UNCHANGED <<runs, locals, srcdir, nixpkgs_ver, nixpkgs_versions_db,
                 probes, fetches, pre, succeeded, settled>>

(***************************************************************************)
(* The versions database, lines 347-391.                                   *)
(***************************************************************************)
\* lines 348-350
CreateVersionsDb ==
  /\ pc = "vcreate"
  /\ \E io \in IoOutcomes :
       /\ Fault(io = "err", "vcreate")
       /\ IF io = "ok"
          THEN /\ nixpkgs_versions_db' =
                    CreateDatabase(nixpkgs_versions_db, EmptyVersionsDb)
               /\ stmt' = 0
               /\ Goto("vddl")
          ELSE Err /\ UNCHANGED <<nixpkgs_versions_db, stmt>>
  /\ UNCHANGED <<runs, version, latestnixpkgsver, latestpkgsver, resp, pkgjson,
                 srcdir, nixpkgs_ver, nixpkgs_db,
                 probes, fetches, pre, succeeded, settled>>

\* lines 351-376: the three statements, one at a time
CreateVersionsSchema ==
  /\ pc = "vddl"
  /\ \E io \in IoOutcomes :
       /\ Fault(io = "err", "vddl")
       /\ IF io = "ok" /\ CanCreate(nixpkgs_versions_db, stmt + 1)
          THEN /\ nixpkgs_versions_db' =
                    [nixpkgs_versions_db EXCEPT !.schema = stmt + 1]
               /\ stmt' = stmt + 1
               /\ Goto(IF stmt + 1 = VersionsDbStatements THEN "vimport" ELSE "vddl")
          ELSE Err /\ UNCHANGED <<nixpkgs_versions_db, stmt>>
  /\ UNCHANGED <<runs, version, latestnixpkgsver, latestpkgsver, resp, pkgjson,
                 srcdir, nixpkgs_ver, nixpkgs_db,
                 probes, fetches, pre, succeeded, settled>>

\* lines 378-391
ImportVersions ==
  /\ pc = "vimport"
  /\ \E outcome \in ImportOutcomes : \E some \in Partial(VersionsCsv(pkgjson)) :
       /\ Fault(outcome # "exit0", ImportFault("vimport", outcome))
       /\ nixpkgs_versions_db' = [nixpkgs_versions_db EXCEPT !.pkgs =
              ImportRows(@, Imported(outcome, VersionsCsv(pkgjson), some))]
       /\ IF ImportAborts(outcome) THEN Err ELSE Goto("marker")
  /\ UNCHANGED <<runs, locals, srcdir, nixpkgs_ver, nixpkgs_db,
                 probes, fetches, pre, succeeded, settled>>

(***************************************************************************)
(* The marker, lines 393-394 and 398.                                      *)
(***************************************************************************)
\* File::create truncates the file; write_all then writes the version
MarkerOutcomes == {"ok", "create_err", "write_err"}

WriteMarker ==
  /\ pc = "marker"
  /\ \E io \in MarkerOutcomes :
       /\ Fault(io # "ok", "marker")
       /\ CASE io = "ok" ->
                 /\ nixpkgs_ver' = File(latestpkgsver)
                 /\ Ok(FALSE)
            [] io = "create_err" ->
                 /\ Err
                 /\ UNCHANGED <<nixpkgs_ver, succeeded, settled>>
            [] io = "write_err" ->
                 /\ nixpkgs_ver' = File(<< >>)
                 /\ Err
                 /\ UNCHANGED <<succeeded, settled>>
  /\ UNCHANGED <<runs, locals, srcdir, nixpkgs_db, nixpkgs_versions_db,
                 probes, fetches, pre>>

Next ==
  \/ Start
  \/ Probe
  \/ Fallback
  \/ MkDir
  \/ StalenessCheck
  \/ Fetch
  \/ RemoveDb
  \/ CreateDb
  \/ CreateSchema
  \/ Decode
  \/ ImportPkgs
  \/ ImportMeta
  \/ CreateVersionsDb
  \/ CreateVersionsSchema
  \/ ImportVersions
  \/ WriteMarker

Spec == Init /\ [][Next]_vars

(***************************************************************************)
(* Vocabulary of the properties.                                           *)
(***************************************************************************)
\* an invocation has ended and no other has started
RunEnded == pc = "idle" /\ result # "none"

\* the run has resolved a version (line 139 was reached)
HasResolved == latestnixpkgsver # << >>

\* nixpkgs.db fully built and loaded from the manifest of snapshot `ident`
FullDb(ident) ==
  [exists |-> TRUE, schema |-> DbStatements,
   pkgs |-> PkgsCsv(ManifestOf(ident)), meta |-> MetaCsv(ManifestOf(ident))]

\* nixpkgs_versions.db fully built and loaded from the manifest of `ident`
FullVersionsDb(ident) ==
  [exists |-> TRUE, schema |-> VersionsDbStatements,
   pkgs |-> VersionsCsv(ManifestOf(ident))]

\* the complete databases of the snapshots whose canonical version is v
SnapshotsOf(v) == { FullDb(i) : i \in { j \in Idents : CanonicalVersion(j) = v } }

CompleteSnapshots == { FullDb(i) : i \in Idents }

\* the external failures that end a run between Loader step 1 and step 8
LoaderAborts ==
  {"create", "ddl", "decode", "import_pkgs", "import_meta", "vcreate", "vddl", "vimport"}

\* the external failures of the Loader steps before the marker is written
LoaderFaults ==
  {"create", "ddl", "import_pkgs", "import_pkgs_exit", "import_meta",
   "import_meta_exit", "vcreate", "vddl", "vimport", "vimport_exit"}

\* failures that the design does not count as a failed step: a non-2xx
\* primary probe (the fallback follows) and an unreadable marker (refresh)
Tolerated == {"probe_status", "read_marker"}

AttributesOf(table) == { r.attribute : r \in table }

(***************************************************************************)
(* One invocation on a source directory that earlier invocations have left *)
(* behind.  Each of these directories is what Spec leaves after at most    *)
(* two runs:                                                               *)
(*  - nothing yet;                                                         *)
(*  - a successful refresh for snapshot i;                                 *)
(*  - a successful refresh for snapshot i, then a refresh for another      *)
(*    version that removed nixpkgs.db and failed at create_database.       *)
(***************************************************************************)
LeftBehind ==
  { [ver |-> NoFile, db |-> NoDb, versions |-> NoVersionsDb,
     succeeded |-> {}, settled |-> None] }
  \cup
  { [ver |-> File(CanonicalVersion(i)), db |-> FullDb(i),
     versions |-> FullVersionsDb(i),
     succeeded |-> {CanonicalVersion(i)}, settled |-> Some(CanonicalVersion(i))]
    : i \in Idents }
  \cup
  { [ver |-> File(CanonicalVersion(i)), db |-> NoDb,
     versions |-> FullVersionsDb(i),
     succeeded |-> {CanonicalVersion(i)}, settled |-> None]
    : i \in Idents }

InitLeftBehind ==
  /\ pc = "idle"
  /\ runs = MaxRuns - 1
  /\ version = "" /\ latestnixpkgsver = << >> /\ latestpkgsver = << >>
  /\ resp = NoBody /\ pkgjson = NoPackages /\ stmt = 0
  /\ \E d \in LeftBehind :
       /\ srcdir = d.ver.exists
       /\ nixpkgs_ver = d.ver /\ nixpkgs_db = d.db /\ nixpkgs_versions_db = d.versions
       /\ succeeded = d.succeeded /\ settled = d.settled
       /\ pre = [files |-> [ver |-> d.ver, db |-> d.db, versions |-> d.versions],
                 srcdir |-> d.ver.exists,
                 succeeded |-> d.succeeded, settled |-> d.settled]
  /\ result = "none" /\ uptodate = FALSE
  /\ probes = << >> /\ fetches = << >> /\ faults = {}

SpecLeftBehind == InitLeftBehind /\ [][Next]_vars

(***************************************************************************)
(* The Normalizer on its own: lines 239-345 applied to manifests whose     *)
(* meta fields range over the shapes below.  The state is that of a first  *)
(* run at line 239: the manifest is downloaded, nixpkgs.db is created and  *)
(* its tables exist.                                                       *)
(***************************************************************************)
FlagNames == <<"broken", "insecure", "unsupported", "unfree">>

\* a flag in the manifest: absent, null, true, false
FlagInputs == <<None, Some(JNull), Some(JBool(TRUE)), Some(JBool(FALSE))>>

\* homepage in the manifest
HomepageInputs ==
  << None, Some(JNull), Some(JStr("https://foo")),
     Some(JList(<<JStr("https://a"), JStr("https://b")>>)),
     Some(JList(<< >>)), Some(JNum(7)) >>

LicenseMIT ==
  JObj(<< <<"free", JBool(TRUE)>>, <<"fullName", JStr("MIT License")>>,
          <<"spdxId", JStr("MIT")>>, <<"url", JStr("https://mit")>> >>)

\* a license object as nixpkgs writes it
LicenseGPL ==
  JObj(<< <<"deprecated", JBool(FALSE)>>, <<"free", JBool(TRUE)>>,
          <<"fullName", JStr("GNU GPL")>>, <<"shortName", JStr("gpl")>>,
          <<"spdxId", JStr("GPL")>>, <<"url", JStr("https://gpl")>> >>)

\* license in the manifest
LicenseInputs ==
  << None, Some(JNull), Some(JStr("MIT")),
     Some(JList(<<JStr("MIT"), JStr("GPL")>>)),
     Some(LicenseMIT), Some(LicenseGPL),
     Some(JObj(<< <<"fullName", JStr("Public Domain")>> >>)),
     Some(JList(<<LicenseMIT, LicenseMIT>>)),
     Some(JList(<<LicenseMIT, JStr("GPL")>>)),
     Some(JList(<<JStr("GPL"), JList(<<JStr("MIT")>>)>>)),
     Some(JNum(3)) >>

\* platforms in the manifest
PlatformInputs ==
  << None, Some(JNull), Some(JStr("x86_64-linux")),
     Some(JList(<<JStr("x86_64-linux"), JStr("aarch64-linux")>>)),
     Some(JList(<< >>)),
     Some(JList(<<JList(<<JStr("x86_64-linux")>>), JList(<< >>)>>)),
     Some(JNum(1)),
     Some(JObj(<< <<"system", JStr("x86_64-linux")>> >>)),
     Some(JList(<<JStr("x86_64-linux"), JNum(1)>>)) >>

\* the member `key` of a meta object, when the manifest has one
Member(key, o) == IF IsSome(o) THEN << <<key, Unwrap(o)>> >> ELSE << >>

MetaInput(flags, homepage, license, platforms) ==
  Member("broken", flags[1]) \o Member("insecure", flags[2])
    \o Member("unsupported", flags[3]) \o Member("unfree", flags[4])
    \o Member("homepage", homepage) \o Member("license", license)
    \o Member("platforms", platforms)

\* a manifest of two packages: p with the given meta, q always the same
ManifestInput(meta) ==
  [a \in {"p", "q"} |->
     IF a = "p" THEN PkgJson("p", "1.0", meta)
     ELSE PkgJson("q", "2.0", << <<"broken", JBool(TRUE)>>,
                                 <<"homepage", JStr("https://q")>> >>)]

\* the downloaded manifest is one of: every combination of the four flags
\* with nothing else, every combination of homepage, license and platforms
\* with no flag
InputManifest ==
  \/ \E b, i, s, f \in 1..Len(FlagInputs) :
       resp = Body(TRUE, ManifestInput(
                MetaInput(<<FlagInputs[b], FlagInputs[i], FlagInputs[s], FlagInputs[f]>>,
                          None, None, None)))
  \/ \E h \in 1..Len(HomepageInputs), l \in 1..Len(LicenseInputs),
        p \in 1..Len(PlatformInputs) :
       resp = Body(TRUE, ManifestInput(
                MetaInput(<<None, None, None, None>>,
                          HomepageInputs[h], LicenseInputs[l], PlatformInputs[p])))

InitNormalizer ==
  /\ pc = "decode"
  /\ runs = 1
  /\ version \in Channels
  /\ latestnixpkgsver = <<"nixos-", "23.05.1">>
  /\ latestpkgsver = CanonicalVersion(latestnixpkgsver)
  /\ InputManifest
  /\ pkgjson = NoPackages /\ stmt = DbStatements
  /\ srcdir = TRUE
  /\ nixpkgs_ver = NoFile
  /\ nixpkgs_db = [EmptyDb EXCEPT !.schema = DbStatements]
  /\ nixpkgs_versions_db = NoVersionsDb
  /\ result = "none" /\ uptodate = FALSE
  /\ probes = <<Probed(version, "success", latestnixpkgsver)>>
  /\ fetches = <<version>> /\ faults = {}
  /\ succeeded = {} /\ settled = None
  /\ pre = [files |-> [ver |-> NoFile, db |-> NoDb, versions |-> NoVersionsDb],
            srcdir |-> TRUE, succeeded |-> {}, settled |-> None]

NextNormalizer == Decode \/ ImportPkgs \/ ImportMeta

SpecNormalizer == InitNormalizer /\ [][NextNormalizer]_vars

\* the meta object of attribute a in the downloaded manifest
RawMeta(a) == Unwrap(JField(resp.packages[a], "meta"))

\* the field `key` of attribute a in the downloaded manifest: None when the
\* manifest has no such member or has null for it
RawField(a, key) ==
  IF IsSome(JField(RawMeta(a), key)) /\ Unwrap(JField(RawMeta(a), key)).t # "null"
  THEN JField(RawMeta(a), key) ELSE None

\* two JSON values are the same value: objects are compared by their
\* members whatever the order, lists element by element
RECURSIVE SameJson(_, _)
SameJson(a, b) ==
  IF a.t # b.t THEN FALSE
  ELSE IF a.t = "list"
       THEN Len(a.v) = Len(b.v) /\ \A i \in 1..Len(a.v) : SameJson(a.v[i], b.v[i])
  ELSE IF a.t = "obj"
       THEN /\ JKeys(a) = JKeys(b)
            /\ \A k \in JKeys(a) : SameJson(Unwrap(JField(a, k)), Unwrap(JField(b, k)))
  ELSE a.v = b.v

\* the field is there and is the value j
Is(o, j) == IsSome(o) /\ SameJson(Unwrap(o), j)

\* the meta import has run to its end with exit status 0
MetaLoaded == pc = "vcreate" /\ "import_meta_exit" \notin faults

(***************************************************************************)
(* C1 - up to date means a complete database                               *)
(***************************************************************************)
\* C1: whenever the staleness check signals "up to date" for canonical
\* version V, nixpkgs.db is the complete, fully loaded snapshot of V.
C1_UpToDateMeansComplete ==
  (RunEnded /\ uptodate) => nixpkgs_db \in SnapshotsOf(latestpkgsver)

(***************************************************************************)
(* C2 - a failed manifest fetch changes neither database nor marker       *)
(***************************************************************************)
FetchFailed == faults \cap {"fetch", "fetch_status"} # {}

\* C2: if the manifest fetch fails, by a non-success status or a transport
\* error, the run ends in failure and nixpkgs.db and nixpkgs.ver are as they
\* were before the run.
C2_FailedFetchPreserves ==
  FetchFailed =>
    /\ pc = "idle" /\ result = "err"
    /\ nixpkgs_db = pre.files.db
    /\ nixpkgs_ver = pre.files.ver

\* a fetch answered with a non-success status while a database and a marker
\* of an earlier run were on disk
C2_Witness ==
  /\ "fetch_status" \in faults /\ RunEnded
  /\ pre.files.db.exists /\ pre.files.ver.exists

(***************************************************************************)
(* C3 - the marker is written only after every loader step succeeded       *)
(***************************************************************************)
\* C3: if any loader step before the marker write fails (database creation,
\* schema, either bulk load including a failing import subprocess, the
\* versions database), the marker keeps its previous content.
C3_MarkerOnlyAfterSuccess ==
  (faults \cap LoaderFaults # {}) => nixpkgs_ver = pre.files.ver

(***************************************************************************)
(* C4 - the database is always a complete snapshot                         *)
(***************************************************************************)
\* C4: at every observation point the primary database is either what it
\* was before the run (the complete prior snapshot) or the complete new
\* snapshot, never a partially built database.
C4_PriorOrNewSnapshot ==
  \/ nixpkgs_db = pre.files.db /\ (nixpkgs_db.exists => nixpkgs_db \in CompleteSnapshots)
  \/ HasResolved /\ nixpkgs_db = FullDb(latestnixpkgsver)

(***************************************************************************)
(* C5 - a failed load leaves no database                                   *)
(***************************************************************************)
\* C5: if a run fails after the old database was deleted and before the
\* marker is written, no primary database file is present when it ends.
C5_FailedLoadLeavesNoDb ==
  (RunEnded /\ result # "ok" /\ faults \cap LoaderAborts # {}) => ~nixpkgs_db.exists

(***************************************************************************)
(* C6 - idempotence of the refresh                                         *)
(***************************************************************************)
\* the run has not gone past the staleness check and has changed no file
ShortCircuits ==
  /\ pc \in {"mkdir", "check", "idle"}
  /\ fetches = << >>
  /\ Files = pre.files
  /\ RunEnded => (result = "ok" /\ uptodate)

C7_RetrySucceeds ==
  (RunEnded /\ faults = {} /\ fetches # << >>) =>
    /\ result = "ok"
    /\ nixpkgs_ver = File(latestpkgsver)
    /\ nixpkgs_db = FullDb(latestnixpkgsver)
    /\ nixpkgs_versions_db = FullVersionsDb(latestnixpkgsver)

(***************************************************************************)
(* C8 - the fallback probe                                                 *)
(***************************************************************************)
\* the resolver has finished with the primary probe's failure
PrimaryFailed(outcomes) ==
  /\ Len(probes) >= 1 /\ probes[1].outcome \in outcomes
  /\ pc # "fallback"

\* exactly one further probe, against nixos-unstable; if it succeeded the
\* run goes on with channel "unstable" and the fallback's identifier
FellBack ==
  /\ Len(probes) = 2
  /\ probes[2].path = "nixos-unstable"
  /\ probes[2].outcome = "success" =>
       /\ version = "unstable"
       /\ latestnixpkgsver = probes[2].ident
       /\ latestpkgsver = CanonicalVersion(probes[2].ident)
       /\ "fallback" \notin faults

\* C8 as stated: whenever the primary probe does not succeed, by a non-2xx
\* status or by a transport failure, the resolver probes nixos-unstable once
\* and, if that succeeds, continues with channel "unstable".
C8_FallbackOnAnyFailure ==
  PrimaryFailed({"status", "transport"}) => FellBack

\* C8 as amended: whenever the primary probe returns a non-2xx status, the
\* resolver probes nixos-unstable exactly once and, if that succeeds,
\* continues with channel "unstable" and the fallback's identifier; when the
\* primary probe gets no response the run fails without a fallback probe.
C8_FallbackOnStatus ==
  /\ PrimaryFailed({"status"}) => FellBack
  /\ PrimaryFailed({"transport"}) => (Len(probes) = 1 /\ pc = "idle" /\ result = "err")

\* the fallback probe succeeded after a non-2xx primary probe
C8_Witness ==
  /\ PrimaryFailed({"status"})
  /\ Len(probes) = 2 /\ probes[2].outcome = "success"
  /\ pc = "mkdir"

(***************************************************************************)
(* C9 - every failure is reported                                          *)
(***************************************************************************)
\* C9: a run reports success only if it short-circuited as up to date or
\* every step succeeded; any failed step makes it end in failure.
C9_FailureIsReported ==
  (RunEnded /\ result = "ok") => faults \subseteq Tolerated

(***************************************************************************)
(* C10 - one pkgs row and one meta row per attribute                       *)
(***************************************************************************)
\* C10: after a run that ends successfully having refreshed from manifest
\* M, pkgs has exactly one row per attribute key of M, meta has exactly one
\* row per pkgs row, and both tables hold the same attributes.
C10_RowsMatchManifest ==
  (RunEnded /\ result = "ok" /\ ~uptodate) =>
    /\ AttributesOf(nixpkgs_db.pkgs) = DOMAIN pkgjson
    /\ Cardinality(nixpkgs_db.pkgs) = Cardinality(DOMAIN pkgjson)
    /\ Cardinality(nixpkgs_db.meta) = Cardinality(nixpkgs_db.pkgs)
    /\ AttributesOf(nixpkgs_db.meta) = AttributesOf(nixpkgs_db.pkgs)

(***************************************************************************)
(* C11 - the versions database is replaced like the primary one            *)
(***************************************************************************)
\* C11: when the build of nixpkgs_versions.db starts, a file of that name
\* left by an earlier run has been deleted and a fresh database created, so
\* that after a complete import it holds exactly the (attribute, pname,
\* version) rows of the new manifest and no row of an earlier snapshot.
C11_VersionsDbReplaced ==
  /\ (pc = "vddl" /\ stmt = 0) => nixpkgs_versions_db = EmptyVersionsDb
  /\ (pc = "marker" /\ "vimport_exit" \notin faults) =>
        nixpkgs_versions_db = FullVersionsDb(latestnixpkgsver)

(***************************************************************************)
(* C16 - the manifest is decoded before the database is touched            *)
(***************************************************************************)
\* C16: the manifest is completely decoded before the Loader deletes the
\* existing database file, so a run in which decoding fails leaves the
\* pre-existing database and the marker as they were when the run started.
C16_DecodeFailureTouchesNothing ==
  ("decode" \in faults /\ pre.files.db.exists) =>
    nixpkgs_db = pre.files.db /\ nixpkgs_ver = pre.files.ver

(***************************************************************************)
(* C19 - the version is resolved from the channel that is downloaded       *)
(***************************************************************************)
\* C19: in every successful refresh the channel path of the probe that
\* resolved the version and the channel path of the packages.json.br URL
\* are the same, on the primary path and on the fallback path alike.
C19_ProbedChannelIsFetched ==
  (RunEnded /\ result = "ok" /\ ~uptodate) =>
    /\ Len(fetches) = 1
    /\ fetches[1] = probes[Len(probes)].path

(***************************************************************************)
(* C20 - up to date means a complete versions database                     *)
(***************************************************************************)
\* C20: whenever a run short-circuits as up to date for version V,
\* nixpkgs_versions.db exists and holds exactly the (attribute, pname,
\* version) rows of a snapshot whose canonical version is V.
C20_UpToDateMeansVersionsComplete ==
  (RunEnded /\ uptodate) =>
    nixpkgs_versions_db \in
      { FullVersionsDb(i) : i \in { j \in Idents : CanonicalVersion(j) = latestpkgsver } }

(***************************************************************************)
(* C17 - both probes refused                                               *)
(***************************************************************************)
BothProbesRefused ==
  /\ Len(probes) = 2
  /\ probes[1].outcome = "status" /\ probes[2].outcome = "status"

\* C17: if the primary probe and the fallback probe both return a
\* non-success status, the run fails after exactly two probes and no
\* further request, and nothing has changed on the filesystem: the source
\* directory is as it was and so are the marker and the database files.
C17_RefusedTwiceFailsUntouched ==
  /\ Len(probes) <= 2
  /\ BothProbesRefused =>
       /\ RunEnded /\ result = "err"
       /\ fetches = << >>
       /\ srcdir = pre.srcdir
       /\ Files = pre.files

\* both probes were refused in a run that started without a source directory
\* and in a run that started with a loaded database
C17_Witness ==
  /\ BothProbesRefused /\ RunEnded
  /\ (~pre.srcdir \/ pre.files.db.exists)

(***************************************************************************)
(* C18 - the staleness decision                                            *)
(***************************************************************************)
\* the run has resolved a version, has its source directory and has made
\* the staleness check
Checked == HasResolved /\ "mkdir" \notin faults /\ pc \notin {"mkdir", "check"}

\* when the run started the marker could be read, held exactly the
\* canonical version, and nixpkgs.db existed
MarkerSaysCurrent ==
  /\ pre.files.ver.exists /\ "read_marker" \notin faults
  /\ pre.files.ver.content = latestpkgsver
  /\ pre.files.db.exists

\* the run has gone on to the fetch
Proceeded == ~uptodate /\ (pc = "fetch" \/ fetches # << >>)

\* C18: once a version is resolved, the run short-circuits as up to date if
\* and only if the marker is readable, its content equals the canonical
\* version and nixpkgs.db exists; otherwise, a missing marker or database
\* included, the check does not fail the run: it proceeds to the fetch.
C18_StalenessDecision ==
  Checked =>
    IF MarkerSaysCurrent
    THEN RunEnded /\ result = "ok" /\ uptodate /\ fetches = << >>
    ELSE Proceeded

\* the marker holds the resolved version but nixpkgs.db is missing, and
\* the run has proceeded to the fetch
C18_Witness ==
  /\ Checked /\ Proceeded
  /\ pre.files.ver = File(latestpkgsver) /\ "read_marker" \notin faults
  /\ ~pre.files.db.exists

(***************************************************************************)
(* C12 - license round trip                                                *)
(***************************************************************************)
\* C12: for every package with a license of a recognized shape, the value
\* stored in meta.license is the same structured value as the license of
\* the manifest: no key of a license object is dropped and none is added.
C12_LicenseRoundTrip ==
  \A r \in nixpkgs_db.meta :
    IsSome(RawField(r.attribute, "license")) =>
      /\ IsSome(r.license)
      /\ SameJson(Unwrap(r.license), Unwrap(RawField(r.attribute, "license")))

(***************************************************************************)
(* C13 - homepage first-element rule                                       *)
(***************************************************************************)
\* the homepage the rule gives for the manifest value h: the empty CSV
\* field stands for an absent homepage
HomepageRule(h) ==
  IF ~IsSome(h) THEN ""
  ELSE IF IsStr(Unwrap(h)) THEN Unwrap(h).v[1]
  ELSE IF IsStrList(Unwrap(h)) /\ Len(Unwrap(h).v) > 0 THEN Unwrap(h).v[1].v[1]
  ELSE ""

\* C13: for every package the stored homepage is the string itself when the
\* manifest has a single string, the first element when the manifest has a
\* non-empty list of strings, and absent when the manifest has no homepage
\* or an empty list.
C13_HomepageFirstElement ==
  \A r \in nixpkgs_db.meta :
    r.homepage = HomepageRule(RawField(r.attribute, "homepage"))

\* the rows of a two-element list, of a single string are loaded
C13_Witness ==
  /\ MetaLoaded
  /\ \E r \in nixpkgs_db.meta :
       /\ Is(RawField(r.attribute, "homepage"),
             JList(<<JStr("https://a"), JStr("https://b")>>))
       /\ r.homepage = "https://a"

(***************************************************************************)
(* C14 - platforms of an unrecognized shape                                *)
(***************************************************************************)
Recognized(p) == IsStr(p) \/ IsStrList(p) \/ IsStrListList(p)

\* the meta object without its member `key`
Without(meta, key) == JObj(SelectSeq(meta.v, LAMBDA m : m[1] # key))

\* C14: a platforms value of no recognized shape (string, list of strings,
\* list of lists of strings) never makes the decoding fail, and the stored
\* platforms value of that package is absent; for a recognized shape the
\* stored value is the serialized value.
C14_UnknownPlatformsAbsent ==
  /\ \A a \in DOMAIN resp.packages :
       DecMeta(Some(RawMeta(a))).ok = DecMeta(Some(Without(RawMeta(a), "platforms"))).ok
  /\ \A r \in nixpkgs_db.meta :
       LET p == RawField(r.attribute, "platforms")
       IN IF IsSome(p) /\ Recognized(Unwrap(p))
          THEN Is(r.platforms, Unwrap(p))
          ELSE ~IsSome(r.platforms)

\* a manifest whose platforms is a bare number has been decoded and loaded
C14_Witness ==
  /\ MetaLoaded
  /\ \E r \in nixpkgs_db.meta :
       Is(RawField(r.attribute, "platforms"), JNum(1)) /\ ~IsSome(r.platforms)

(***************************************************************************)
(* C15 - the four flags                                                    *)
(***************************************************************************)
\* the manifest has `true` for the flag
RawTrue(a, flag) ==
  /\ IsSome(RawField(a, flag))
  /\ Unwrap(RawField(a, flag)).t = "bool"
  /\ Unwrap(RawField(a, flag)).v[1]

\* C15: for each of broken, insecure, unsupported, unfree and every package
\* the stored integer is 1 exactly when the manifest field is present and
\* true, and 0 when it is present and false or absent.
C15_FlagsAreZeroOrOne ==
  \A r \in nixpkgs_db.meta :
    /\ r.broken = (IF RawTrue(r.attribute, "broken") THEN 1 ELSE 0)
    /\ r.insecure = (IF RawTrue(r.attribute, "insecure") THEN 1 ELSE 0)
    /\ r.unsupported = (IF RawTrue(r.attribute, "unsupported") THEN 1 ELSE 0)
    /\ r.unfree = (IF RawTrue(r.attribute, "unfree") THEN 1 ELSE 0)

\* a package with broken true, insecure false and unfree absent is loaded
C15_Witness ==
  /\ MetaLoaded
  /\ \E r \in nixpkgs_db.meta :
       /\ Is(RawField(r.attribute, "broken"), JBool(TRUE))
       /\ Is(RawField(r.attribute, "insecure"), JBool(FALSE))
       /\ ~IsSome(JField(RawMeta(r.attribute), "unfree"))
       /\ r.broken = 1 /\ r.insecure = 0 /\ r.unfree = 0

====
